---- MODULE Spec2Model ----
(***************************************************************************)
(* A model of varstruct (src/varstruct_internal.h): structures made of     *)
(* scalar and array fields whose byte layout is computed at run time by    *)
(* Varstruct::Create() from the array lengths, and whose fields are read   *)
(* and written in a caller-owned buffer with std::memcpy().                *)
(*                                                                         *)
(* std::size_t values are modelled as naturals.  All bounds keep every     *)
(* product and sum far below 2^64, so the reduction modulo 2^64 that the   *)
(* C++ arithmetic applies is the identity on every value that occurs.      *)
(* assert() is modelled as compiled in (no NDEBUG): a failing assertion    *)
(* aborts the program.                                                     *)
(***************************************************************************)
EXTENDS Integers, Sequences, FiniteSets, TLC

\* ---------------------------------------------------------------- bounds
MaxFields == 3     \* most VARSTRUCT_SCALAR()/VARSTRUCT_ARRAY() declarations
MaxElemSize == 2   \* largest sizeof(decl_type)
MaxLen == 2        \* largest array length handed to Create()
MaxViews == 2      \* most varstruct objects alive at once
MemLen == 4        \* bytes of caller memory the model follows
MaxByte == 1       \* largest byte value the model follows

\* ------------------------------------------------------------- the state
VARIABLES
    schema,   \* the member declarations of the varstruct class, in order
    views,    \* the varstruct objects returned by Create(), oldest first
    mem,      \* the caller's memory, addresses 0 .. MemLen-1
    last      \* the last call: its arguments and its outcome

vars == <<schema, views, mem, last>>

\* The three instantiations of PtrType.
PtrTypes == {"void*", "const void*", "NoPtr"}

ElemSizes == 1 .. MaxElemSize
Bytes == 0 .. MaxByte
Addrs == 0 .. (MemLen - 1)

\* A member declaration: VARSTRUCT_SCALAR(decl_type, name) or
\* VARSTRUCT_ARRAY(decl_type, name); size is sizeof(decl_type).
Decls == [size : ElemSizes, array : BOOLEAN]

RECURSIVE SeqsUpTo(_, _)
SeqsUpTo(S, n) ==
    IF n = 0 THEN {<<>>}
    ELSE LET shorter == SeqsUpTo(S, n - 1)
         IN  shorter \cup {Append(s, x) : s \in {t \in shorter : Len(t) = n - 1}, x \in S}

Schemas == SeqsUpTo(Decls, MaxFields)

\* ------------------------------------------------- VarstructInternal etc.
\* A freshly allocated VarstructInternal: both vectors empty.
VarstructInternal == [arrays_ |-> <<>>, offsets_ |-> <<>>]

\* VarstructMember's constructor: index_ is offsets_.size() before the
\* push_back()s.  Returns the member's index and the updated varstruct.
VarstructMember(size, is_array, varstruct) ==
    [index_    |-> Len(varstruct.offsets_),
     varstruct |-> [varstruct EXCEPT !.offsets_ = Append(@, size),
                                     !.arrays_  = Append(@, is_array)]]

\* Default construction of CrtpTemplate<PtrType>: the __name_member_
\* initialisers run in declaration order.
RECURSIVE Construct(_, _)
Construct(decls, n) ==
    IF n = 0 THEN [vs |-> VarstructInternal, members |-> <<>>]
    ELSE LET before == Construct(decls, n - 1)
             m == VarstructMember(decls[n].size, decls[n].array, before.vs)
         IN  [vs |-> m.varstruct, members |-> Append(before.members, m.index_)]

\* num_members()
num_members(v) == Len(v.offsets_)

\* size_bytes(), had it returned offsets_.front().
size_bytesFront(v) == IF v.offsets_ = <<>> THEN 0 ELSE v.offsets_[1]

\* size_bytes()
size_bytes(v) == IF v.offsets_ = <<>> THEN 0 ELSE v.offsets_[Len(v.offsets_)]

\* C++ vectors are indexed from 0, TLA+ sequences from 1.
At(vec, i) == vec[i + 1]

SetAt(vec, i, x) == [vec EXCEPT ![i + 1] = x]

\* std::deque<std::size_t>::back(), front() and pop_front()
back(array_sizes) == array_sizes[Len(array_sizes)]

front(array_sizes) == Head(array_sizes)

pop_front(array_sizes) == Tail(array_sizes)

\* ------------------------------------------------ Varstruct::CreateInternal
\* The first loop: each array member's cell, which holds sizeof(decl_type),
\* is multiplied by the next array size.  assert(!array_sizes.empty())
\* aborts when the deque has run out.
RECURSIVE MultiplyLoop(_, _, _)
MultiplyLoop(varstruct, array_sizes, i) ==
    IF ~(i < num_members(varstruct))
    THEN [aborted |-> FALSE, varstruct |-> varstruct, array_sizes |-> array_sizes]
    ELSE IF At(varstruct.arrays_, i)
         THEN IF array_sizes = <<>>
              THEN [aborted |-> TRUE, varstruct |-> varstruct, array_sizes |-> array_sizes]
              ELSE MultiplyLoop(
                       [varstruct EXCEPT !.offsets_ =
                           SetAt(@, i, At(@, i) * front(array_sizes))],
                       pop_front(array_sizes), i + 1)
         ELSE MultiplyLoop(varstruct, array_sizes, i + 1)

\* The check after the first loop, had it been left out.
NoSizesLeftLax(array_sizes) == TRUE

\* assert(array_sizes.empty()) after the first loop: TRUE when it passes.

NoSizesLeft(array_sizes) == array_sizes = <<>>

\* The second loop, had total been assigned (=) instead of added to (+=).
RECURSIVE CarryAddNoCarry(_, _, _)
CarryAddNoCarry(offsets, i, total) ==
    IF ~(i < Len(offsets)) THEN offsets
    ELSE CarryAddNoCarry(SetAt(offsets, i, At(offsets, i)), i + 1, At(offsets, i))

\* The second loop: "make the offsets real offsets by carry adding".

RECURSIVE CarryAdd(_, _, _)
CarryAdd(offsets, i, total) ==
    IF ~(i < Len(offsets)) THEN offsets
    ELSE LET t == total + At(offsets, i)
         IN  CarryAdd(SetAt(offsets, i, t), i + 1, t)

\* CreateInternal(), had the NoPtr instantiation skipped the carry adding.
CreateInternalSkipNoPtr(PtrType, decls, ptr, array_sizes) ==
    LET built == Construct(decls, Len(decls))
        mult  == MultiplyLoop(built.vs, array_sizes, 0)
    IN  IF mult.aborted \/ ~NoSizesLeft(mult.array_sizes)
        THEN [aborted |-> TRUE]
        ELSE [aborted   |-> FALSE,
              varstruct |-> [PtrType  |-> PtrType,
                             ptr_     |-> ptr,
                             members  |-> built.members,
                             arrays_  |-> <<>>,
                             offsets_ |-> IF PtrType = "NoPtr"
                                          THEN mult.varstruct.offsets_
                                          ELSE CarryAdd(mult.varstruct.offsets_, 0, 0)]]

\* CreateInternal(ptr, array_sizes) of the instantiation for PtrType, over
\* the class whose member declarations are decls.
CreateInternal(PtrType, decls, ptr, array_sizes) ==
    LET built == Construct(decls, Len(decls))
        mult  == MultiplyLoop(built.vs, array_sizes, 0)
    IN  IF mult.aborted \/ ~NoSizesLeft(mult.array_sizes)
        THEN [aborted |-> TRUE]
        ELSE [aborted   |-> FALSE,
              varstruct |-> [PtrType  |-> PtrType,
                             ptr_     |-> ptr,
                             members  |-> built.members,
                             arrays_  |-> <<>>,
                             offsets_ |-> CarryAdd(mult.varstruct.offsets_, 0, 0)]]

\* NoPtr(): an object with no members.
NoPtr == "NoPtr"

\* The three Create() overloads.
CreateMutable(decls, ptr, array_sizes) == CreateInternal("void*", decls, ptr, array_sizes)

CreateConst(decls, ptr, array_sizes) == CreateInternal("const void*", decls, ptr, array_sizes)

CreateNoPtr(decls, array_sizes) == CreateInternal("NoPtr", decls, NoPtr, array_sizes)

\* ------------------------------------------------------------- metafunctions
IsNoPtr(PtrType) == PtrType = "NoPtr"

\* std::is_const<std::remove_pointer<PtrType>::type>
IsConstPtr(PtrType) == PtrType = "const void*"

\* The enable_if conditions of the generated readers and writers.
GetEnabled(PtrType) == ~IsNoPtr(PtrType)

\* The writers' condition, had the is_const test been left out.
SetEnabledNoConstTest(PtrType) == ~IsNoPtr(PtrType)

SetEnabled(PtrType) == ~IsNoPtr(PtrType) /\ ~IsConstPtr(PtrType)

\* ------------------------------------------------- the generated accessors
\* In the operators below v is a varstruct object and k the position
\* (1 .. Len(schema)) of the member declaration the accessor was generated
\* for; v.members[k] is __name_member_.index().

\* name_offset(), had it read offsets_[index] instead of offsets_[index - 1].
name_offsetOwnCell(v, k) ==
    LET index == v.members[k]
    IN  IF index = 0 THEN 0 ELSE At(v.offsets_, index)

\* name_offset()
name_offset(v, k) ==
    LET index == v.members[k]
    IN  IF index = 0 THEN 0 ELSE At(v.offsets_, index - 1)

\* name_size() as VARSTRUCT_SCALAR_INTERNAL defines it: sizeof(decl_type)
scalar_size(decl) == decl.size

\* name_size() as VARSTRUCT_ARRAY_INTERNAL defines it
array_size(v, k) ==
    LET index == v.members[k]
    IN  IF index = 0 THEN At(v.offsets_, index)
        ELSE At(v.offsets_, index) - At(v.offsets_, index - 1)

name_size(v, k) ==
    IF schema[k].array THEN array_size(v, k) ELSE scalar_size(schema[k])

\* The assertion below, had it compared with <= instead of <.
BoundsOkInclusive(array_index, array_elems) ==
    array_index >= 0 /\ array_index <= array_elems

\* The assertion of __name__void__ptr__<true>: TRUE when it passes.
\* array_index is a std::size_t, so array_index >= 0 always holds.

BoundsOk(array_index, array_elems) ==
    array_index >= 0 /\ array_index < array_elems

\* The address below, had the array index been left out of the sum.
ElementPtrNoIndex(ptr, offset, array_index, size) == ptr + offset

\* The address __name__void__ptr__ returns.
ElementPtr(ptr, offset, array_index, size) == ptr + offset + array_index * size

\* __name__void__ptr__<bounds_check>(array_index)
void_ptr(v, k, bounds_check, array_index) ==
    LET array_elems == name_size(v, k) \div schema[k].size
    IN  IF bounds_check /\ ~BoundsOk(array_index, array_elems)
        THEN [aborted |-> TRUE]
        ELSE [aborted |-> FALSE,
              p |-> ElementPtr(v.ptr_, name_offset(v, k), array_index, schema[k].size)]

\* ------------------------------------------------------------- std::memcpy
\* An object of a POD type of n bytes is its n bytes.
Values(n) == [1 .. n -> Bytes]

InMemory(p, n) == p >= 0 /\ p + n <= MemLen

\* The n bytes at p.
Load(m, p, n) == [j \in 1 .. n |-> m[p + j - 1]]

\* Store, had one byte too few been copied.
StoreShort(m, p, val) ==
    [a \in Addrs |-> IF a >= p /\ a < p + Len(val) - 1 THEN val[a - p + 1] ELSE m[a]]

\* m with the bytes of val stored at p (those that fall inside the memory
\* the model follows).
Store(m, p, val) ==
    [a \in Addrs |-> IF a >= p /\ a < p + Len(val) THEN val[a - p + 1] ELSE m[a]]

\* ------------------------------------------------------------ the program
\* Base addresses callers hand to Create().
BasePtrs == {0, 1}

\* Array indices callers pass: in range, one past the end, and beyond.
Indices == 0 .. (MaxLen + 1)

\* The deques callers hand to Create(): every one that is too short, exact,
\* or one too long for the array members declared.
LengthSeqs ==
    SeqsUpTo(0 .. MaxLen, Cardinality({k \in DOMAIN schema : schema[k].array}) + 1)

NoCall ==
    [op |-> "none", status |-> "ok", view |-> 0, field |-> 0, index |-> 0,
     bounds_check |-> FALSE, val |-> <<>>, count |-> 0, wrote |-> <<>>]

\* A failed assert() has ended the program.
Running == last.status \notin {"LengthMismatch", "OutOfRange"}

\* Keep, had offsets_ been one vector shared by every varstruct of the class.
KeepShared(held, created) ==
    Append([i \in DOMAIN held |->
               [held[i] EXCEPT !.varstruct.offsets_ = created.varstruct.offsets_]],
           created)

\* The object CreateInternal() returns is a value of its own: the caller's
\* new varstruct joins the ones it already holds.
Keep(held, created) == Append(held, created)

\* What a call of a Create() overload that returned r leaves behind.
\* array_sizes is kept beside the object to state the properties.
Created(r, array_sizes) ==
    IF r.aborted
    THEN /\ last' = [NoCall EXCEPT !.op = "Create", !.status = "LengthMismatch",
                                   !.count = Len(array_sizes)]
         /\ UNCHANGED <<schema, views, mem>>
    ELSE /\ views' = Keep(views, [varstruct |-> r.varstruct, array_sizes |-> array_sizes])
         /\ last' = [NoCall EXCEPT !.op = "Create", !.view = Len(views) + 1,
                                   !.count = Len(array_sizes)]
         /\ UNCHANGED <<schema, mem>>

CreateMutableCall(limit) ==
    /\ Running /\ Len(views) < limit
    /\ \E ptr \in BasePtrs, array_sizes \in LengthSeqs :
          Created(CreateMutable(schema, ptr, array_sizes), array_sizes)

CreateConstCall(limit) ==
    /\ Running /\ Len(views) < limit
    /\ \E ptr \in BasePtrs, array_sizes \in LengthSeqs :
          Created(CreateConst(schema, ptr, array_sizes), array_sizes)

CreateNoPtrCall(limit) ==
    /\ Running /\ Len(views) < limit
    /\ \E array_sizes \in LengthSeqs :
          Created(CreateNoPtr(schema, array_sizes), array_sizes)

\* std::memcpy(&tmp, p, sizeof(tmp)); return tmp.  Reading outside the
\* caller's memory is undefined: any value may come back.
\* wrote remembers, for the properties, the value that the call just before
\* stored through the same varstruct at the same member and index, if the
\* call just before was such a store.
Read(i, k, bounds_check, array_index) ==
    LET v == views[i].varstruct
        n == schema[k].size
        r == void_ptr(v, k, bounds_check, array_index)
        call == [NoCall EXCEPT !.op = "get", !.view = i, !.field = k,
                               !.index = array_index, !.bounds_check = bounds_check,
                               !.wrote = IF /\ last.op = "set" /\ last.status = "ok"
                                            /\ last.view = i /\ last.field = k
                                            /\ last.index = array_index
                                         THEN <<last.val>> ELSE <<>>]
    IN  /\ UNCHANGED <<schema, views, mem>>
        /\ IF r.aborted
           THEN last' = [call EXCEPT !.status = "OutOfRange"]
           ELSE IF InMemory(r.p, n)
                THEN last' = [call EXCEPT !.val = Load(mem, r.p, n)]
                ELSE \E tmp \in Values(n) :
                        last' = [call EXCEPT !.status = "undefined", !.val = tmp]

\* std::memcpy(p, &new_value, sizeof(new_value)).  Writing outside the
\* caller's memory is undefined: the bytes that fall inside it may or may
\* not be stored.
Write(i, k, bounds_check, array_index, new_value) ==
    LET v == views[i].varstruct
        r == void_ptr(v, k, bounds_check, array_index)
        call == [NoCall EXCEPT !.op = "set", !.view = i, !.field = k,
                               !.index = array_index, !.bounds_check = bounds_check,
                               !.val = new_value]
    IN  /\ UNCHANGED <<schema, views>>
        /\ IF r.aborted
           THEN /\ last' = [call EXCEPT !.status = "OutOfRange"]
                /\ mem' = mem
           ELSE IF InMemory(r.p, Len(new_value))
                THEN /\ last' = call
                     /\ mem' = Store(mem, r.p, new_value)
                ELSE /\ last' = [call EXCEPT !.status = "undefined"]
                     /\ mem' \in {mem, Store(mem, r.p, new_value)}

\* decl_type name()
ScalarGet ==
    /\ Running
    /\ \E i \in DOMAIN views, k \in DOMAIN schema :
          /\ ~schema[k].array
          /\ GetEnabled(views[i].varstruct.PtrType)
          /\ Read(i, k, FALSE, 0)

\* void set_name(decl_type new_value)
ScalarSet ==
    /\ Running
    /\ \E i \in DOMAIN views, k \in DOMAIN schema :
          /\ ~schema[k].array
          /\ SetEnabled(views[i].varstruct.PtrType)
          /\ \E new_value \in Values(schema[k].size) : Write(i, k, FALSE, 0, new_value)

\* decl_type name<bounds_check>(std::size_t array_index)
ArrayGet ==
    /\ Running
    /\ \E i \in DOMAIN views, k \in DOMAIN schema :
          /\ schema[k].array
          /\ GetEnabled(views[i].varstruct.PtrType)
          /\ \E bounds_check \in BOOLEAN, array_index \in Indices :
                Read(i, k, bounds_check, array_index)

\* void set_name<bounds_check>(std::size_t array_index, decl_type new_value)
ArraySet ==
    /\ Running
    /\ \E i \in DOMAIN views, k \in DOMAIN schema :
          /\ schema[k].array
          /\ SetEnabled(views[i].varstruct.PtrType)
          /\ \E bounds_check \in BOOLEAN, array_index \in Indices,
                new_value \in Values(schema[k].size) :
                Write(i, k, bounds_check, array_index, new_value)

Init ==
    /\ schema \in Schemas
    /\ views = <<>>
    /\ mem = [a \in Addrs |-> 0]
    /\ last = NoCall

Next ==
    \/ CreateMutableCall(MaxViews)
    \/ CreateConstCall(MaxViews)
    \/ CreateNoPtrCall(MaxViews)
    \/ ScalarGet
    \/ ScalarSet
    \/ ArrayGet
    \/ ArraySet

Spec == Init /\ [][Next]_vars

\* The layout of one varstruct: every schema, and the Create() overloads.
NextLayout ==
    \/ CreateMutableCall(1)
    \/ CreateConstCall(1)
    \/ CreateNoPtrCall(1)

SpecLayout == Init /\ [][NextLayout]_vars

\* The layouts of several varstructs of one schema: every schema, and the
\* Create() overloads.
NextVariants ==
    \/ CreateMutableCall(MaxViews)
    \/ CreateConstCall(MaxViews)
    \/ CreateNoPtrCall(MaxViews)

SpecVariants == Init /\ [][NextVariants]_vars

\* Access through one varstruct, over the schemas of fewer than MaxFields
\* members.
InitAccess ==
    /\ Init
    /\ Len(schema) < MaxFields

NextAccess ==
    \/ CreateMutableCall(1)
    \/ CreateConstCall(1)
    \/ CreateNoPtrCall(1)
    \/ ScalarGet
    \/ ScalarSet
    \/ ArrayGet
    \/ ArraySet

SpecAccess == InitAccess /\ [][NextAccess]_vars

\* Several varstructs of one schema, created and accessed in any order, over
\* the schemas of at most one member.
InitViews ==
    /\ Init
    /\ Len(schema) <= 1

SpecViews == InitViews /\ [][Next]_vars

\* ============================================================= properties
\* What the layout should be, from the declarations and the lengths alone.

ArrayFields(decls) == {k \in DOMAIN decls : decls[k].array}

\* The rank of array member k among the array members, in declaration order.
ArrayRank(decls, k) == Cardinality({j \in ArrayFields(decls) : j <= k})

\* The bytes member k should occupy.
RawSize(decls, lens, k) ==
    IF decls[k].array THEN decls[k].size * lens[ArrayRank(decls, k)] ELSE decls[k].size

RECURSIVE SumRaw(_, _, _)
SumRaw(decls, lens, n) ==
    IF n = 0 THEN 0 ELSE SumRaw(decls, lens, n - 1) + RawSize(decls, lens, n)

HasScalar == \E k \in DOMAIN schema : ~schema[k].array

\* C1: the view Create() returns reports size_bytes() equal to the sum of
\* the scalar members' sizes plus, for each array member, its element size
\* times the length supplied for it; 0 for a schema without members.
C1_TotalSize ==
    \A i \in DOMAIN views :
        size_bytes(views[i].varstruct)
            = SumRaw(schema, views[i].array_sizes, Len(schema))

\* A view of a schema mixing scalars and two arrays of different nonzero
\* lengths.
C1_Witness ==
    \E i \in DOMAIN views :
        /\ HasScalar
        /\ Len(views[i].array_sizes) = 2
        /\ views[i].array_sizes[1] = 2 /\ views[i].array_sizes[2] = 1
        /\ size_bytes(views[i].varstruct) >= 5

\* C2: start(0) = 0, start(i) = start(i-1) + size(i-1) for i > 0, and the
\* last member ends at size_bytes(): adjacent ranges, no gap, no overlap.
C2_Contiguous ==
    \A i \in DOMAIN views :
        LET v == views[i].varstruct
        IN  \A k \in DOMAIN schema :
               /\ k = 1 => name_offset(v, k) = 0
               /\ k > 1 => name_offset(v, k) = name_offset(v, k - 1) + name_size(v, k - 1)
               /\ k = Len(schema) => name_offset(v, k) + name_size(v, k) = size_bytes(v)

\* The scenario of the specification scaled to the element sizes followed:
\* [scalar, array, scalar] with lengths [2].
C2_Witness ==
    /\ Len(schema) = 3
    /\ ~schema[1].array /\ schema[2].array /\ ~schema[3].array
    /\ schema[1].size = 1 /\ schema[2].size = 2 /\ schema[3].size = 2
    /\ \E i \in DOMAIN views :
          /\ views[i].array_sizes = <<2>>
          /\ name_offset(views[i].varstruct, 2) = 1
          /\ name_offset(views[i].varstruct, 3) = 5
          /\ size_bytes(views[i].varstruct) = 7

\* C3: Create() fails exactly when the number of lengths supplied differs
\* from the number of array members, whatever the lengths are.
C3_LengthMismatch ==
    last.op = "Create" =>
        (last.status = "LengthMismatch"
            <=> last.count # Cardinality(ArrayFields(schema)))

\* A failure with lengths left over after every array member got one.
C3_Witness ==
    /\ last.op = "Create" /\ last.status = "LengthMismatch"
    /\ Cardinality(ArrayFields(schema)) >= 1
    /\ last.count > Cardinality(ArrayFields(schema))

\* The number of elements of array member k of view i.
Elems(i, k) == name_size(views[i].varstruct, k) \div schema[k].size

\* C4: a get that directly follows a set of the same member (and index, in
\* range) through the same mutable view returns the value written.
C4_RoundTrip ==
    (/\ last.op = "get" /\ last.wrote # <<>>
     /\ last.index < Elems(last.view, last.field))
        => /\ last.status = "ok"
           /\ last.val = last.wrote[1]

\* Element 1 of an array of 2-byte elements read back after a write of a
\* value with a nonzero byte.
C4_Witness ==
    /\ last.op = "get" /\ last.wrote # <<>> /\ last.status = "ok"
    /\ schema[last.field].array /\ schema[last.field].size = 2
    /\ last.index = 1 /\ last.index < Elems(last.view, last.field)
    /\ last.val = <<0, 1>>

\* The address an access to element array_index of member k of view i uses.
AccessAddr(i, k, array_index) ==
    views[i].varstruct.ptr_ + name_offset(views[i].varstruct, k)
        + array_index * schema[k].size

\* C5: with bounds checking, an array get or set fails with OutOfRange
\* exactly when index >= size(f) / element_size(f) (an index is a
\* std::size_t and is never negative); without it, the access never fails
\* so and is carried out at start(f) + index * element_size(f).
C5_BoundsCheck ==
    (last.op \in {"get", "set"} /\ schema[last.field].array) =>
        LET n == Elems(last.view, last.field)
            p == AccessAddr(last.view, last.field, last.index)
            size == schema[last.field].size
        IN  /\ n = views[last.view].array_sizes[ArrayRank(schema, last.field)]
            /\ last.bounds_check =>
                  (last.status = "OutOfRange" <=> last.index >= n)
            /\ ~last.bounds_check =>
                  /\ last.status # "OutOfRange"
                  /\ last.status = "ok" <=> InMemory(p, size)
                  /\ InMemory(p, size) => last.val = Load(mem, p, size)

\* A checked access one past the end of a nonempty array.
C5_Witness ==
    /\ last.op = "set" /\ schema[last.field].array
    /\ last.bounds_check /\ last.status = "OutOfRange"
    /\ Elems(last.view, last.field) = 2 /\ last.index = 2

\* The answers of the offset queries of a varstruct.
Layout(v) ==
    [start |-> [k \in DOMAIN schema |-> name_offset(v, k)],
     size  |-> [k \in DOMAIN schema |-> name_size(v, k)],
     total |-> size_bytes(v),
     count |-> num_members(v)]

\* C6: views built from the same lengths by different Create() overloads,
\* at any base address, answer start, size, total size and member count
\* alike.
C6_VariantsAgree ==
    \A i, j \in DOMAIN views :
        views[i].array_sizes = views[j].array_sizes
            => Layout(views[i].varstruct) = Layout(views[j].varstruct)

\* An offsets-only view and a mutable view of the same nonzero lengths.
C6_Witness ==
    \E i, j \in DOMAIN views :
        /\ views[i].varstruct.PtrType = "NoPtr"
        /\ views[j].varstruct.PtrType = "void*"
        /\ views[j].varstruct.ptr_ = 1
        /\ views[i].array_sizes = views[j].array_sizes
        /\ views[i].array_sizes = <<2, 1>>
        /\ HasScalar

\* C7: a view's variant never changes; a set happens only through a mutable
\* view, a get only through a mutable or read-only view, and the memory
\* changes only in a set through a mutable view.
C7_Step ==
    /\ \A i \in DOMAIN views :
          /\ i \in DOMAIN views'
          /\ views'[i].varstruct.PtrType = views[i].varstruct.PtrType
    /\ last'.op = "set" => views'[last'.view].varstruct.PtrType = "void*"
    /\ last'.op = "get" => views'[last'.view].varstruct.PtrType \in {"void*", "const void*"}
    /\ mem' # mem => last'.op = "set" /\ views'[last'.view].varstruct.PtrType = "void*"

C7_Capability == [][C7_Step]_vars

\* A read through a read-only view.
C7_Witness ==
    /\ last.op = "get" /\ last.status = "ok"
    /\ views[last.view].varstruct.PtrType = "const void*"

\* offsets[i - 1] of the LayoutTable, with offsets[-1] = 0 (i counts from 0).
EndBefore(v, i) == IF i = 0 THEN 0 ELSE At(v.offsets_, i - 1)

\* C8 as stated: the offsets are strictly increasing, and each differs from
\* the one before by the member's size.
C8_StrictlyIncreasing ==
    \A n \in DOMAIN views :
        LET v == views[n].varstruct
        IN  \A i \in 0 .. (num_members(v) - 1) :
               /\ i > 0 => At(v.offsets_, i - 1) < At(v.offsets_, i)
               /\ At(v.offsets_, i) - EndBefore(v, i) = name_size(v, i + 1)

\* C8 amended: the offsets never decrease, offsets[i-1] < offsets[i] exactly
\* when member i is not an array of length 0, and each offset differs from
\* the one before by the member's size.
C8_NonDecreasing ==
    \A n \in DOMAIN views :
        LET v == views[n].varstruct
        IN  \A i \in 0 .. (num_members(v) - 1) :
               /\ i > 0 => At(v.offsets_, i - 1) <= At(v.offsets_, i)
               /\ i > 0 => (At(v.offsets_, i - 1) < At(v.offsets_, i)
                              <=> ~(/\ schema[i + 1].array
                                    /\ views[n].array_sizes[ArrayRank(schema, i + 1)] = 0))
               /\ At(v.offsets_, i) - EndBefore(v, i) = name_size(v, i + 1)

\* A view whose second member is an array of length 0, between two scalars.
C8_Witness ==
    /\ Len(schema) = 3
    /\ ~schema[1].array /\ schema[2].array /\ ~schema[3].array
    /\ \E n \in DOMAIN views :
          /\ views[n].array_sizes = <<0>>
          /\ At(views[n].varstruct.offsets_, 0) = At(views[n].varstruct.offsets_, 1)
          /\ At(views[n].varstruct.offsets_, 1) < At(views[n].varstruct.offsets_, 2)

\* What one call of Create() for view n's own variant, address and lengths
\* returns.
Resolved(n) ==
    CreateInternal(views[n].varstruct.PtrType, schema, views[n].varstruct.ptr_,
                   views[n].array_sizes).varstruct

\* C9: whatever Create() and accessor calls have happened, every view held
\* still is what one Create() with its own lengths returns, and its offset
\* queries answer accordingly; views of equal lengths have equal offsets.
C9_Independent ==
    /\ \A n \in DOMAIN views :
          /\ views[n].varstruct = Resolved(n)
          /\ Layout(views[n].varstruct) = Layout(Resolved(n))
    /\ \A n, m \in DOMAIN views :
          views[n].array_sizes = views[m].array_sizes
              => views[n].varstruct.offsets_ = views[m].varstruct.offsets_

\* Two views of different lengths, the older one written through after the
\* newer one was created.
C9_Witness ==
    /\ Len(views) = 2
    /\ views[1].array_sizes = <<2>> /\ views[2].array_sizes = <<1>>
    /\ last.op = "set" /\ last.view = 1 /\ last.status = "ok" /\ last.index = 1

\* C10: the j-th array member gets the j-th length: its size is its element
\* size times that length; a scalar member's size is its element size.
C10_Positional ==
    \A n \in DOMAIN views :
        \A k \in DOMAIN schema :
            /\ name_size(views[n].varstruct, k) = RawSize(schema, views[n].array_sizes, k)
            /\ At(views[n].varstruct.offsets_, k - 1) - EndBefore(views[n].varstruct, k - 1)
                  = RawSize(schema, views[n].array_sizes, k)

\* Arrays on either side of a scalar, with different lengths.
C10_Witness ==
    /\ Len(schema) = 3
    /\ schema[1].array /\ ~schema[2].array /\ schema[3].array
    /\ schema[1].size = schema[3].size
    /\ \E n \in DOMAIN views :
          /\ views[n].array_sizes = <<1, 2>>
          /\ name_size(views[n].varstruct, 1) < name_size(views[n].varstruct, 3)

\* The in-range elements of the members of view i: <<k, array_index>>.
Elements(i) ==
    {e \in (DOMAIN schema) \X Indices : e[2] < Elems(i, e[1])}

\* C11: a set of member f (element i, in range) through a mutable view
\* changes no byte outside the element_size(f) bytes at
\* start(f) + i * element_size(f), which lie inside f's range and inside
\* [0, size_bytes()); every other member and element keeps its value and
\* the views keep their offsets.  A get, and a set that fails its bounds
\* check, change nothing.
C11_Step ==
    /\ last'.op \in {"get", "set"} => views' = views /\ schema' = schema
    /\ (last'.op = "get" \/ last'.status = "OutOfRange") => mem' = mem
    /\ (/\ last'.op = "set" /\ last'.status # "OutOfRange"
        /\ last'.index < Elems(last'.view, last'.field)) =>
          LET i     == last'.view
              k     == last'.field
              v     == views[i].varstruct
              size  == schema[k].size
              start == name_offset(v, k) + last'.index * size
              p     == AccessAddr(i, k, last'.index)
          IN  /\ v.PtrType = "void*"
              /\ name_offset(v, k) <= start
              /\ start + size <= name_offset(v, k) + name_size(v, k)
              /\ name_offset(v, k) + name_size(v, k) <= size_bytes(v)
              /\ p = v.ptr_ + start
              /\ \A a \in Addrs : (a < p \/ a >= p + size) => mem'[a] = mem[a]
              /\ \A e \in Elements(i) :
                    LET q == AccessAddr(i, e[1], e[2])
                        n == schema[e[1]].size
                    IN  (e # <<k, last'.index>> /\ InMemory(q, n))
                            => Load(mem', q, n) = Load(mem, q, n)

C11_Frame == [][C11_Step]_vars

\* Element 1 of an array that follows a scalar was written with a nonzero
\* value, and every byte outside the element is still 0.
C11_Witness ==
    /\ last.op = "set" /\ last.status = "ok"
    /\ Len(schema) = 2 /\ ~schema[1].array /\ schema[2].array
    /\ last.field = 2 /\ last.index = 1
    /\ last.index < Elems(last.view, last.field)
    /\ last.val[1] = 1
    /\ LET p == AccessAddr(last.view, last.field, last.index)
       IN  /\ p > 0
           /\ \A a \in Addrs : (a < p \/ a >= p + schema[2].size) => mem[a] = 0

====
